---- MODULE Spec2Model ----
(***************************************************************************)
(* Model of creativity_project/collecting_data.py: RedditDataCollector,    *)
(* the incremental collection and deduplication engine.                    *)
(*                                                                         *)
(* The state is the persisted per-subreddit documents (posts file and      *)
(* comments file), the collector's attributes, and the locals and program  *)
(* position of collect_all_subreddits and of the methods it calls.  The    *)
(* external content API (the listings and the comment forests) and the     *)
(* file system (reads and writes that may raise) are the environment: what *)
(* they return is drawn from small sets.                                   *)
(***************************************************************************)
EXTENDS Integers, Sequences, FiniteSets, TLC

(***************************************************************************)
(* Bounds of the model.  The collector's numeric attributes are scaled     *)
(* down in Spec (the code's values are the *Code definitions below, used   *)
(* at full scale by SpecFeed and SpecGate).                                *)
(***************************************************************************)
MaxRuns == 2            \* runs of main() in a row
MaxFeed == 2            \* posts one listing yields at most
MaxForest == 2          \* top-level comments one submission exposes at most
SmallTarget == 2        \* posts_per_subreddit, scaled: Spec tries 1..SmallTarget
SmallCap == 1           \* comments_per_post, scaled
SmallPostsThreshold == 2     \* min_posts_threshold, scaled
SmallCommentsThreshold == 1  \* min_comments_threshold, scaled
MaxSubmission == 3      \* top-level comments of the submission SpecComments fixes
MaxCap == 2             \* comments_per_post, scaled: SpecComments tries 1..MaxCap

\* The code's values (collecting_data.py, __init__).
PostsPerSubredditCode == 200
CommentsPerPostCode == 20
MinPostsThresholdCode == 200
MinCommentsThresholdCode == 500
LimitMultiplier == 3

\* The sources a collector can be configured with.
Subs == {"news", "art"}

(***************************************************************************)
(* What the environment can return.                                        *)
(***************************************************************************)
PostIds == {1, 2}
PostScores == {3, 4, 5}
NoAuthor == "None"

\* A submission as a listing yields it.  valid = FALSE: reading one of its
\* fields raises inside collect_post_data.
RawPosts == [id : PostIds, score : PostScores, stickied : BOOLEAN, valid : BOOLEAN]

\* Top-level comments as a submission exposes them.
RawComments ==
    { [body |-> "text",      author |-> "u",      score |-> 2, valid |-> TRUE],
      [body |-> "text",      author |-> "u",      score |-> 0, valid |-> TRUE],
      [body |-> "",          author |-> "u",      score |-> 2, valid |-> TRUE],
      [body |-> "[deleted]", author |-> "u",      score |-> 2, valid |-> TRUE],
      [body |-> "[removed]", author |-> "u",      score |-> 2, valid |-> TRUE],
      [body |-> "text",      author |-> NoAuthor, score |-> 2, valid |-> TRUE],
      [body |-> "more",      author |-> "u",      score |-> 2, valid |-> FALSE] }

RECURSIVE SeqsUpTo(_, _)
SeqsUpTo(S, n) ==
    IF n = 0 THEN {<<>>}
    ELSE LET shorter == SeqsUpTo(S, n - 1)
         IN  shorter \cup {Append(q, x) : q \in {r \in shorter : Len(r) = n - 1}, x \in S}

Forests == SeqsUpTo(RawComments, MaxForest)

VARIABLES
    \* the file system: data/raw/<subreddit>_posts.json, _comments.json and
    \* data/metadata/collection_info_<mode>.json
    posts_file, comments_file, metadata_file,
    \* the collector's attributes
    subreddits, supplement_mode, posts_per_subreddit, comments_per_post,
    min_posts_threshold, min_comments_threshold,
    \* collect_all_subreddits
    run, pc, idx, results,
    existing_posts, existing_comments, existing_post_ids,
    posts_data, comments_data,
    \* check_if_supplement_needed: its counts and its return value
    checked_counts, needed,
    \* collect_subreddit_posts: the strategy, the loop counter, the listing
    sort_i, collected_count, yielded, feed_size,
    \* collect_subreddit_comments: index of the post being processed
    ci,
    \* the external API's view: the sources requests were made for in this run
    api_calls,
    \* the submission whose comments are fetched, when the specification fixes it
    submission,
    \* what the run has done so far: per source the stages its processing went
    \* through, the posts whose comment fetch raised, the number of writes of
    \* the metadata file, and the summary printed at the end
    stage, comment_failed, metadata_writes, summary,
    \* the two documents of every source as they were when the run started
    disk_at_start

vars == <<posts_file, comments_file, metadata_file,
          subreddits, supplement_mode, posts_per_subreddit, comments_per_post,
          min_posts_threshold, min_comments_threshold,
          run, pc, idx, results,
          existing_posts, existing_comments, existing_post_ids,
          posts_data, comments_data, checked_counts, needed,
          sort_i, collected_count, yielded, feed_size, ci, api_calls,
          submission, stage, comment_failed, metadata_writes, summary, disk_at_start>>

disk == <<posts_file, comments_file>>
config == <<subreddits, posts_per_subreddit, comments_per_post,
            min_posts_threshold, min_comments_threshold, feed_size, submission>>
\* what is emitted once, after the loop
report == <<metadata_file, metadata_writes, summary>>
load_locals == <<existing_posts, existing_comments, existing_post_ids>>
fetch_locals == <<sort_i, collected_count, yielded>>

(***************************************************************************)
(* Pure helpers.                                                           *)
(***************************************************************************)
EmptyDict == <<>>

\* {post['id'] for post in posts}
IdsOf(posts) == {posts[i].id : i \in 1..Len(posts)}

\* sum(len(comments) for comments in d.values())
RECURSIVE SumLens(_, _)
SumLens(d, keys) ==
    IF keys = {} THEN 0
    ELSE LET k == CHOOSE x \in keys : TRUE
         IN  Len(d[k]) + SumLens(d, keys \ {k})

total_comments(d) == SumLens(d, DOMAIN d)

\* d.copy(); d.update(e)
DictUpdate(d, e) ==
    [k \in (DOMAIN d) \cup (DOMAIN e) |-> IF k \in DOMAIN e THEN e[k] ELSE d[k]]

\* d[k] = v
DictSet(d, k, v) ==
    [x \in (DOMAIN d) \cup {k} |-> IF x = k THEN v ELSE d[x]]

\* An absent file, a file holding a document, and a file that open(.., 'w')
\* has truncated and json.dump has not (yet) filled: it holds no document
\* that json.load can parse (valid = FALSE).
\* A document carries the aggregate fields save_data computes for it.
NoFile == [exists |-> FALSE, valid |-> FALSE, total_posts |-> 0, posts |-> <<>>]
NoCommentsFile ==
    [exists |-> FALSE, valid |-> FALSE, total_posts_with_comments |-> 0,
     total_comments |-> 0, comments |-> EmptyDict]
PostsDocument(posts) ==
    [exists |-> TRUE, valid |-> TRUE, total_posts |-> Len(posts), posts |-> posts]
CommentsDocument(comments) ==
    [exists |-> TRUE, valid |-> TRUE,
     total_posts_with_comments |-> Cardinality(DOMAIN comments),
     total_comments |-> total_comments(comments),
     comments |-> comments]
TruncatedPostsFile == [exists |-> TRUE, valid |-> FALSE, total_posts |-> 0, posts |-> <<>>]
TruncatedCommentsFile ==
    [exists |-> TRUE, valid |-> FALSE, total_posts_with_comments |-> 0,
     total_comments |-> 0, comments |-> EmptyDict]

(***************************************************************************)
(* RedditDataCollector.__init__: the mode-dependent filters.               *)
(***************************************************************************)
min_post_upvotes == IF supplement_mode THEN 4 ELSE 5
min_comment_score == IF supplement_mode THEN 1 ELSE 2

mode_text == IF supplement_mode THEN "supplement" ELSE "initial"

\* Mutant: every iteration of the for loop processes the first source.
subreddit_name_first == subreddits[1]

\* The source being processed by the for loop of collect_all_subreddits.
subreddit_name == subreddits[idx]

(***************************************************************************)
(* load_existing_data.  A file that exists may fail to be read (open or    *)
(* json.load raises): the except clause logs and leaves the empty default. *)
(* The result is <<existing_posts, existing_comments, existing_post_ids>>. *)
(***************************************************************************)
load_existing_data(s, posts_raise, comments_raise) ==
    LET loaded_posts ==
            IF posts_file[s].exists /\ ~posts_raise THEN posts_file[s].posts ELSE <<>>
        loaded_comments ==
            IF comments_file[s].exists /\ ~comments_raise
            THEN comments_file[s].comments ELSE EmptyDict
    IN  <<loaded_posts, loaded_comments, IdsOf(loaded_posts)>>

\* A read can raise only for a file that exists, and does raise for a file
\* that holds no parseable document.
ReadRaises(file) == IF ~file.exists THEN {FALSE} ELSE IF ~file.valid THEN {TRUE} ELSE BOOLEAN

(***************************************************************************)
(* check_if_supplement_needed: the decision on the two counts.             *)
(***************************************************************************)
\* Mutant: a count equal to its threshold counts as below it.
needs_supplement_at_threshold(supplement, posts_count, comments_count, posts_threshold, comments_threshold) ==
    IF ~supplement THEN TRUE
    ELSE posts_count <= posts_threshold \/ comments_count <= comments_threshold

\* Mutant: both counts have to be below their thresholds.
needs_supplement_both(supplement, posts_count, comments_count, posts_threshold, comments_threshold) ==
    IF ~supplement THEN TRUE
    ELSE posts_count < posts_threshold /\ comments_count < comments_threshold

needs_supplement(supplement, posts_count, comments_count, posts_threshold, comments_threshold) ==
    IF ~supplement THEN TRUE
    ELSE LET needs_posts == posts_count < posts_threshold
             needs_comments == comments_count < comments_threshold
         IN  needs_posts \/ needs_comments

(***************************************************************************)
(* collect_post_data / collect_comment_data: the persisted record of a raw *)
(* record; <<>> stands for None.                                           *)
(***************************************************************************)
collect_post_data(post) ==
    IF post.valid THEN <<[id |-> post.id, upvotes |-> post.score]>> ELSE <<>>

comment_is_removed(comment) ==
    comment.body \in {"[deleted]", "[removed]"} \/ comment.author = NoAuthor

collect_comment_data(comment) ==
    IF ~comment.valid THEN <<>>
    ELSE IF comment_is_removed(comment) THEN <<>>
    ELSE <<[body |-> comment.body, author |-> comment.author, score |-> comment.score]>>

(***************************************************************************)
(* collect_subreddit_posts: the tests of the loop over one listing.        *)
(***************************************************************************)
sort_methods == IF supplement_mode THEN <<"hot", "top", "best">> ELSE <<"hot">>

\* Mutant: the listing is requested without a limit.
listing_limit_none == feed_size

listing_limit == posts_per_subreddit * LimitMultiplier

\* Mutant: the target is never taken as reached.
target_never_reached(count) == FALSE

\* Mutant: one post too many.
target_exceeded(count) == count > posts_per_subreddit

target_reached(count) == count >= posts_per_subreddit

already_have(post, ids) == post.id \in ids

\* Mutant: no post is below the minimum.
below_min_upvotes_never(post) == FALSE

below_min_upvotes(post) == post.score < min_post_upvotes

\* Mutant: the accepted identifier is not added to the set.
forget_id(ids, post) == ids

remember_id(ids, post) == ids \cup {post.id}

(***************************************************************************)
(* collect_post_comments: the loop over the top-level comments.            *)
(***************************************************************************)
comment_below_min(comment) == comment.score < min_comment_score

RECURSIVE comments_loop(_, _)
comments_loop(forest, comments) ==
    IF forest = <<>> \/ Len(comments) >= comments_per_post THEN comments
    ELSE IF comment_below_min(Head(forest)) THEN comments_loop(Tail(forest), comments)
    ELSE comments_loop(Tail(forest), comments \o collect_comment_data(Head(forest)))

\* Mutant: the cap is applied to the comments exposed, not to the accepted.
collect_post_comments_caps_exposed(forest) ==
    comments_loop(SubSeq(forest, 1, IF Len(forest) < comments_per_post
                                    THEN Len(forest) ELSE comments_per_post), <<>>)

collect_post_comments(forest) == comments_loop(forest, <<>>)

(***************************************************************************)
(* save_data: the merge.                                                   *)
(***************************************************************************)
\* Mutant: the new posts are put first.
merge_posts_new_first(existing, new) == new \o existing

merge_posts(existing, new) == existing \o new

\* Mutant: the previous comments are dropped.
merge_comments_new_only(existing, new) == new

merge_comments(existing, new) == DictUpdate(existing, new)

all_posts == IF supplement_mode THEN merge_posts(existing_posts, posts_data) ELSE posts_data

all_comments ==
    IF supplement_mode THEN merge_comments(existing_comments, comments_data) ELSE comments_data

(***************************************************************************)
(* collection_metadata['results'] entries.                                 *)
(***************************************************************************)
NoResult ==
    [kind |-> "none", posts_collected |-> 0, comments_collected |-> 0, posts_with_comments |-> 0]
ErrorResult ==
    [kind |-> "error", posts_collected |-> 0, comments_collected |-> 0, posts_with_comments |-> 0]
\* Mutant: the counts are those of the documents written.
CountsResult_of_documents ==
    [kind |-> "counts",
     posts_collected |-> Len(all_posts),
     comments_collected |-> total_comments(all_comments),
     posts_with_comments |-> Cardinality(DOMAIN all_comments)]

CountsResult ==
    [kind |-> "counts",
     posts_collected |-> Len(posts_data),
     comments_collected |-> total_comments(comments_data),
     posts_with_comments |-> Cardinality(DOMAIN comments_data)]

NoMetadata == [exists |-> FALSE, results |-> [s \in Subs |-> NoResult]]

(***************************************************************************)
(* The summary collect_all_subreddits prints: the totals over the entries  *)
(* without an 'error' key, and one line for each such entry.               *)
(***************************************************************************)
RECURSIVE SumPosts(_, _)
SumPosts(res, keys) ==
    IF keys = {} THEN 0
    ELSE LET k == CHOOSE x \in keys : TRUE
         IN  res[k].posts_collected + SumPosts(res, keys \ {k})

RECURSIVE SumComments(_, _)
SumComments(res, keys) ==
    IF keys = {} THEN 0
    ELSE LET k == CHOOSE x \in keys : TRUE
         IN  res[k].comments_collected + SumComments(res, keys \ {k})

NoSummary == [printed |-> FALSE, total_posts |-> 0, total_comments |-> 0, itemized |-> {}]

print_summary(res) ==
    LET without_error == {s \in Subs : res[s].kind = "counts"}
    IN  [printed |-> TRUE,
         total_posts |-> SumPosts(res, without_error),
         total_comments |-> SumComments(res, without_error),
         itemized |-> without_error]

(***************************************************************************)
(* Initial state: the data directories exist and hold no file; no run has  *)
(* started.                                                                *)
(***************************************************************************)
InitLocals ==
    /\ existing_posts = <<>>
    /\ existing_comments = EmptyDict
    /\ existing_post_ids = {}
    /\ posts_data = <<>>
    /\ comments_data = EmptyDict
    /\ checked_counts = <<0, 0>>
    /\ needed = FALSE
    /\ sort_i = 1
    /\ collected_count = 0
    /\ yielded = 0
    /\ ci = 1
    /\ comment_failed = {}

\* No run has started: the program position and the run's record.
InitRun ==
    /\ pc = "idle"
    /\ idx = 1
    /\ stage = [s \in Subs |-> <<>>]
    /\ results = [s \in Subs |-> NoResult]
    /\ InitLocals
    /\ api_calls = {}
    /\ submission = <<>>
    /\ metadata_writes = 0
    /\ summary = NoSummary

\* The scaled collector: one source, small targets and thresholds.
Init ==
    /\ posts_file = [s \in Subs |-> NoFile]
    /\ comments_file = [s \in Subs |-> NoCommentsFile]
    /\ metadata_file = [m \in {"initial", "supplement"} |-> NoMetadata]
    /\ disk_at_start = disk
    /\ subreddits = <<"news">>
    /\ supplement_mode = FALSE
    /\ posts_per_subreddit \in 1..SmallTarget
    /\ comments_per_post = SmallCap
    /\ min_posts_threshold = SmallPostsThreshold
    /\ min_comments_threshold = SmallCommentsThreshold
    /\ feed_size = MaxFeed
    /\ InitRun
    /\ run = 0

\* The sources of the run, and the stages of the processing of one source:
\* waiting for its iteration of the for loop, inside collect_subreddit_posts,
\* inside collect_subreddit_comments, inside save_data, and the two ways its
\* iteration ends (normally, or in the except clause of the loop body).
Configured == {subreddits[i] : i \in 1..Len(subreddits)}
Terminal == {"DONE", "FAILED"}

\* The processing of source s enters the given stages, in order.
Enter(s, stages) == stage' = [stage EXCEPT ![s] = @ \o stages]

\* The locals of one iteration of the for loop are dead once it ends.
ResetLocals ==
    /\ existing_posts' = <<>>
    /\ existing_comments' = EmptyDict
    /\ existing_post_ids' = {}
    /\ posts_data' = <<>>
    /\ comments_data' = EmptyDict
    /\ checked_counts' = <<0, 0>>
    /\ needed' = FALSE
    /\ sort_i' = 1
    /\ collected_count' = 0
    /\ yielded' = 0
    /\ ci' = 1

\* The for loop moves to the next subreddit, or leaves the loop.
NextSubreddit ==
    /\ idx' = idx + 1
    /\ pc' = IF idx + 1 > Len(subreddits) THEN "save_metadata" ELSE "check"
    /\ ResetLocals

(***************************************************************************)
(* main and the head of collect_all_subreddits: a run starts in one of the *)
(* two modes with an empty results map.                                    *)
(***************************************************************************)
StartRun ==
    /\ pc = "idle"
    /\ run < MaxRuns
    /\ \E mode \in BOOLEAN : supplement_mode' = mode
    /\ run' = run + 1
    /\ results' = [s \in Subs |-> NoResult]
    /\ idx' = 1
    /\ pc' = "check"
    /\ api_calls' = {}
    /\ stage' = [s \in Subs |-> IF s \in Configured THEN <<"PENDING">> ELSE <<>>]
    /\ metadata_writes' = 0
    /\ summary' = NoSummary
    /\ comment_failed' = {}
    /\ disk_at_start' = disk
    /\ UNCHANGED <<disk, metadata_file, config, load_locals, posts_data, comments_data,
                   checked_counts, needed, fetch_locals, ci>>

(***************************************************************************)
(* check_if_supplement_needed(subreddit_name).                             *)
(***************************************************************************)
CheckSupplement ==
    /\ pc = "check"
    /\ IF ~supplement_mode
       THEN /\ needed' = TRUE
            /\ UNCHANGED checked_counts
       ELSE \E posts_raise \in ReadRaises(posts_file[subreddit_name]),
               comments_raise \in ReadRaises(comments_file[subreddit_name]) :
               LET loaded == load_existing_data(subreddit_name, posts_raise, comments_raise)
                   posts_count == Len(loaded[1])
                   comments_count == total_comments(loaded[2])
               IN  /\ checked_counts' = <<posts_count, comments_count>>
                   /\ needed' = needs_supplement(supplement_mode, posts_count, comments_count,
                                                 min_posts_threshold, min_comments_threshold)
    /\ pc' = "checked"
    /\ comment_failed' = {}
    /\ UNCHANGED <<disk, report, supplement_mode, config, disk_at_start, run, idx, results,
                   load_locals, posts_data, comments_data, fetch_locals, ci,
                   api_calls, stage>>

\* if not self.check_if_supplement_needed(...): continue
SkipSubreddit ==
    /\ pc = "checked"
    /\ ~needed
    /\ Enter(subreddit_name, <<"DONE">>)
    /\ NextSubreddit
    /\ UNCHANGED <<disk, report, supplement_mode, config, disk_at_start, run, results, api_calls,
                   comment_failed>>

\* Load existing data if in supplement mode.  (The locals of the check are
\* dead from here on.)
\* Mutant: the existing documents are loaded in both modes.
loads_existing_always == TRUE

\* if self.supplement_mode: load_existing_data(...)
loads_existing == supplement_mode

LoadExisting ==
    /\ pc = "checked"
    /\ needed
    /\ IF loads_existing
       THEN \E posts_raise \in ReadRaises(posts_file[subreddit_name]),
               comments_raise \in ReadRaises(comments_file[subreddit_name]) :
               LET loaded == load_existing_data(subreddit_name, posts_raise, comments_raise)
               IN  /\ existing_posts' = loaded[1]
                   /\ existing_comments' = loaded[2]
                   /\ existing_post_ids' = loaded[3]
       ELSE /\ existing_posts' = <<>>
            /\ existing_comments' = EmptyDict
            /\ existing_post_ids' = {}
    /\ posts_data' = <<>>
    /\ sort_i' = 1
    /\ checked_counts' = <<0, 0>>
    /\ needed' = FALSE
    /\ pc' = "collect_posts"
    /\ Enter(subreddit_name, <<"FETCHING_ITEMS">>)
    /\ UNCHANGED <<disk, report, supplement_mode, config, disk_at_start, run, idx, results,
                   comments_data, collected_count, yielded, ci, comment_failed, api_calls>>

(***************************************************************************)
(* collect_subreddit_posts.                                                *)
(***************************************************************************)
\* for sort_method in sort_methods: the head of the outer loop, up to the
\* request of the listing; when the loop is over, return posts_data.
StrategyHead ==
    /\ pc = "collect_posts"
    /\ IF sort_i > Len(sort_methods) \/ target_reached(Len(posts_data))
       THEN /\ pc' = "posts_returned"
            /\ UNCHANGED <<collected_count, yielded, api_calls>>
       ELSE /\ pc' = "iterate"
            /\ collected_count' = Len(posts_data)
            /\ yielded' = 0
            /\ api_calls' = api_calls \cup {subreddit_name}
    /\ UNCHANGED <<disk, report, supplement_mode, config, disk_at_start, run, idx, results,
                   load_locals, posts_data, comments_data, checked_counts, needed,
                   sort_i, ci, comment_failed, stage>>

\* The for loop over the listing leaves it (break, or the listing is
\* exhausted): log, and go on with the next sort method.
LeaveListing ==
    /\ pc' = "collect_posts"
    /\ sort_i' = sort_i + 1

\* One iteration of `for post in posts` on the post the listing yields.
ExaminePost(post) ==
    /\ pc = "iterate"
    /\ yielded < feed_size
    /\ yielded < listing_limit
    /\ yielded' = yielded + 1
    /\ IF target_reached(collected_count)
       THEN /\ LeaveListing
            /\ UNCHANGED <<posts_data, existing_post_ids, collected_count>>
       ELSE /\ IF already_have(post, existing_post_ids) \/ below_min_upvotes(post)
                  \/ post.stickied \/ collect_post_data(post) = <<>>
               THEN UNCHANGED <<posts_data, existing_post_ids, collected_count>>
               ELSE /\ posts_data' = posts_data \o collect_post_data(post)
                    /\ existing_post_ids' = remember_id(existing_post_ids, post)
                    /\ collected_count' = collected_count + 1
            /\ UNCHANGED <<pc, sort_i>>
    /\ UNCHANGED <<disk, report, supplement_mode, config, disk_at_start, run, idx, results,
                   existing_posts, existing_comments, comments_data, checked_counts,
                   needed, ci, comment_failed, api_calls, stage>>

\* The external source yields any post.
NextPost == \E post \in RawPosts : ExaminePost(post)

\* The listing is exhausted.
ListingEnd ==
    /\ pc = "iterate"
    /\ LeaveListing
    /\ UNCHANGED <<disk, report, supplement_mode, config, disk_at_start, run, idx, results,
                   load_locals, posts_data, comments_data, checked_counts, needed,
                   collected_count, yielded, ci, comment_failed, api_calls, stage>>

\* What collect_subreddit_posts returns when the listing raises.
posts_on_error(collected) == <<>>

\* The request of the listing raises: the except clause of the method.
ListingError ==
    /\ pc = "iterate"
    /\ posts_data' = posts_on_error(posts_data)
    /\ pc' = "posts_failed"
    /\ UNCHANGED <<disk, report, supplement_mode, config, disk_at_start, run, idx, results,
                   load_locals, comments_data, checked_counts, needed, fetch_locals, ci,
                   comment_failed, api_calls, stage>>

(***************************************************************************)
(* collect_all_subreddits after collect_subreddit_posts returned (whose    *)
(* own locals are dead from here on).                                      *)
(***************************************************************************)
\* Mutant: an empty result is carried on to save_data in full mode too.
AfterPosts_never_continues ==
    /\ pc \in {"posts_returned", "posts_failed"}
    /\ pc' = IF posts_data = <<>> THEN "save_posts" ELSE "collect_comments"
    /\ Enter(subreddit_name,
             IF posts_data = <<>> THEN <<"FETCHING_CHILDREN", "PERSISTING">>
             ELSE <<"FETCHING_CHILDREN">>)
    /\ comments_data' = EmptyDict
    /\ ci' = 1
    /\ sort_i' = 1
    /\ collected_count' = 0
    /\ yielded' = 0
    /\ UNCHANGED <<idx, load_locals, posts_data, checked_counts, needed>>
    /\ UNCHANGED <<disk, report, supplement_mode, config, disk_at_start, run, results, api_calls,
                   comment_failed>>

AfterPosts ==
    /\ pc \in {"posts_returned", "posts_failed"}
    /\ IF posts_data = <<>> /\ ~supplement_mode
       THEN /\ Enter(subreddit_name, <<"DONE">>)
            /\ NextSubreddit
       ELSE /\ pc' = IF posts_data = <<>> THEN "save_posts" ELSE "collect_comments"
            /\ Enter(subreddit_name,
                     IF posts_data = <<>> THEN <<"FETCHING_CHILDREN", "PERSISTING">>
                     ELSE <<"FETCHING_CHILDREN">>)
            /\ comments_data' = EmptyDict
            /\ ci' = 1
            /\ sort_i' = 1
            /\ collected_count' = 0
            /\ yielded' = 0
            /\ UNCHANGED <<idx, load_locals, posts_data, checked_counts, needed>>
    /\ UNCHANGED <<disk, report, supplement_mode, config, disk_at_start, run, results, api_calls,
                   comment_failed>>

\* Mutant: a fetch that raised ends the loop over the posts.
StoreComments_stops_batch(comments, raised) ==
    /\ pc = "collect_comments"
    /\ ci <= Len(posts_data)
    /\ comments_data' = IF comments # <<>>
                        THEN DictSet(comments_data, posts_data[ci].id, comments)
                        ELSE comments_data
    /\ comment_failed' = IF raised THEN comment_failed \cup {posts_data[ci].id}
                         ELSE comment_failed
    /\ ci' = ci + 1
    /\ IF ci = Len(posts_data) \/ raised
       THEN /\ pc' = "save_posts"
            /\ Enter(subreddit_name, <<"PERSISTING">>)
       ELSE /\ pc' = "collect_comments"
            /\ UNCHANGED stage
    /\ api_calls' = api_calls \cup {subreddit_name}
    /\ UNCHANGED <<disk, report, supplement_mode, config, disk_at_start, run, idx, results,
                   load_locals, posts_data, checked_counts, needed, fetch_locals>>

\* collect_subreddit_comments: one iteration on posts_data[ci], given what
\* collect_post_comments returned for it and whether it raised.
StoreComments(comments, raised) ==
    /\ pc = "collect_comments"
    /\ ci <= Len(posts_data)
    /\ comments_data' = IF comments # <<>>
                        THEN DictSet(comments_data, posts_data[ci].id, comments)
                        ELSE comments_data
    /\ comment_failed' = IF raised THEN comment_failed \cup {posts_data[ci].id}
                         ELSE comment_failed
    /\ ci' = ci + 1
    /\ IF ci = Len(posts_data)
       THEN /\ pc' = "save_posts"
            /\ Enter(subreddit_name, <<"PERSISTING">>)
       ELSE /\ pc' = "collect_comments"
            /\ UNCHANGED stage
    /\ api_calls' = api_calls \cup {subreddit_name}
    /\ UNCHANGED <<disk, report, supplement_mode, config, disk_at_start, run, idx, results,
                   load_locals, posts_data, checked_counts, needed, fetch_locals>>

\* The submission exposes any forest of top-level comments.
CollectPostComments ==
    \E f \in Forests : StoreComments(collect_post_comments(f), FALSE)

\* What collect_post_comments returns when fetching the submission raises.
comments_on_error == <<>>

CollectPostCommentsError == StoreComments(comments_on_error, TRUE)

(***************************************************************************)
(* save_data, and the rest of the loop body.  Each of the two files is     *)
(* written in place: open(filename, 'w') truncates it, json.dump then      *)
(* writes the document; either call may raise.                             *)
(***************************************************************************)
\* Mutant: the exception ends the for loop.
FailSubreddit_leaves_loop ==
    /\ results' = [results EXCEPT ![subreddit_name] = ErrorResult]
    /\ Enter(subreddit_name, <<"FAILED">>)
    /\ idx' = idx
    /\ pc' = "save_metadata"
    /\ ResetLocals

\* except Exception of collect_all_subreddits.
FailSubreddit ==
    /\ results' = [results EXCEPT ![subreddit_name] = ErrorResult]
    /\ Enter(subreddit_name, <<"FAILED">>)
    /\ NextSubreddit

\* with open(posts_filename, 'w')
OpenPosts ==
    /\ pc = "save_posts"
    /\ posts_file' = [posts_file EXCEPT ![subreddit_name] = TruncatedPostsFile]
    /\ pc' = "dump_posts"
    /\ UNCHANGED <<comments_file, report, supplement_mode, config, disk_at_start, run, idx, results,
                   load_locals, posts_data, comments_data, checked_counts, needed,
                   fetch_locals, ci, comment_failed, api_calls, stage>>

\* Opening the posts file for writing raises.
SavePostsError ==
    /\ pc = "save_posts"
    /\ FailSubreddit
    /\ UNCHANGED <<disk, report, supplement_mode, config, disk_at_start, run, api_calls, comment_failed>>

\* json.dump(posts_output, f)
SavePosts ==
    /\ pc = "dump_posts"
    /\ posts_file' = [posts_file EXCEPT ![subreddit_name] = PostsDocument(all_posts)]
    /\ pc' = "save_comments"
    /\ UNCHANGED <<comments_file, report, supplement_mode, config, disk_at_start, run, idx, results,
                   load_locals, posts_data, comments_data, checked_counts, needed,
                   fetch_locals, ci, comment_failed, api_calls, stage>>

\* json.dump raises while the posts file is being written.
DumpPostsError ==
    /\ pc = "dump_posts"
    /\ FailSubreddit
    /\ UNCHANGED <<disk, report, supplement_mode, config, disk_at_start, run, api_calls, comment_failed>>

\* with open(comments_filename, 'w')
OpenComments ==
    /\ pc = "save_comments"
    /\ comments_file' = [comments_file EXCEPT ![subreddit_name] = TruncatedCommentsFile]
    /\ pc' = "dump_comments"
    /\ UNCHANGED <<posts_file, report, supplement_mode, config, disk_at_start, run, idx, results,
                   load_locals, posts_data, comments_data, checked_counts, needed,
                   fetch_locals, ci, comment_failed, api_calls, stage>>

\* Opening the comments file for writing raises.
SaveCommentsError ==
    /\ pc = "save_comments"
    /\ FailSubreddit
    /\ UNCHANGED <<disk, report, supplement_mode, config, disk_at_start, run, api_calls, comment_failed>>

\* json.dump(comments_output, f): the comments file is written, save_data
\* returns and the results entry is set.
SaveComments ==
    /\ pc = "dump_comments"
    /\ comments_file' = [comments_file EXCEPT
                            ![subreddit_name] = CommentsDocument(all_comments)]
    /\ results' = [results EXCEPT ![subreddit_name] = CountsResult]
    /\ Enter(subreddit_name, <<"DONE">>)
    /\ NextSubreddit
    /\ UNCHANGED <<posts_file, report, supplement_mode, config, disk_at_start, run, api_calls,
                   comment_failed>>

\* json.dump raises while the comments file is being written.
DumpCommentsError ==
    /\ pc = "dump_comments"
    /\ FailSubreddit
    /\ UNCHANGED <<disk, report, supplement_mode, config, disk_at_start, run, api_calls, comment_failed>>

\* Mutant: the metadata file is written only when no source failed.
SaveMetadata_unless_failed ==
    /\ pc = "save_metadata"
    /\ IF \E s \in Subs : results[s].kind = "error"
       THEN UNCHANGED <<metadata_file, metadata_writes>>
       ELSE /\ metadata_file' = [metadata_file EXCEPT
                                    ![mode_text] = [exists |-> TRUE, results |-> results]]
            /\ metadata_writes' = metadata_writes + 1
    /\ pc' = "print_summary"
    /\ UNCHANGED <<disk, summary, supplement_mode, config, disk_at_start, run, idx, results, load_locals,
                   posts_data, comments_data, checked_counts, needed, fetch_locals, ci,
                   comment_failed, api_calls, stage>>

\* After the loop: the metadata file of the mode is written.
SaveMetadata ==
    /\ pc = "save_metadata"
    /\ metadata_file' = [metadata_file EXCEPT ![mode_text] = [exists |-> TRUE, results |-> results]]
    /\ metadata_writes' = metadata_writes + 1
    /\ pc' = "print_summary"
    /\ UNCHANGED <<disk, summary, supplement_mode, config, disk_at_start, run, idx, results, load_locals,
                   posts_data, comments_data, checked_counts, needed, fetch_locals, ci,
                   comment_failed, api_calls, stage>>

\* The summary is printed; collect_all_subreddits and main return.
PrintSummary ==
    /\ pc = "print_summary"
    /\ summary' = print_summary(results)
    /\ pc' = "idle"
    /\ UNCHANGED <<disk, metadata_file, metadata_writes, supplement_mode, config, disk_at_start, run, idx,
                   results, load_locals, posts_data, comments_data, checked_counts, needed,
                   fetch_locals, ci, comment_failed, api_calls, stage>>

\* The process is stopped (killed, power loss) in the middle of a run: its
\* memory is gone, the files are as they are.
Interrupt ==
    /\ pc # "idle"
    /\ pc' = "idle"
    /\ idx' = 1
    /\ results' = [s \in Subs |-> NoResult]
    /\ ResetLocals
    /\ comment_failed' = {}
    /\ UNCHANGED <<disk, report, supplement_mode, config, disk_at_start, run, api_calls, stage>>

Next ==
    \/ StartRun
    \/ CheckSupplement
    \/ SkipSubreddit
    \/ LoadExisting
    \/ StrategyHead
    \/ NextPost
    \/ ListingEnd
    \/ ListingError
    \/ AfterPosts
    \/ CollectPostComments
    \/ CollectPostCommentsError
    \/ OpenPosts
    \/ SavePostsError
    \/ SavePosts
    \/ DumpPostsError
    \/ OpenComments
    \/ SaveCommentsError
    \/ SaveComments
    \/ DumpCommentsError
    \/ SaveMetadata
    \/ PrintSummary

Spec == Init /\ [][Next]_vars

(***************************************************************************)
(* Properties.                                                             *)
(***************************************************************************)
Current == subreddit_name

NoDuplicateIds(posts) ==
    \A i, j \in 1..Len(posts) : i # j => posts[i].id # posts[j].id

\* C1: no persisted posts document of any source holds two posts with the
\* same identifier, whatever the listings yield and whatever the sequence
\* of full and supplement runs.
C1_UniqueIds == \A s \in Subs : NoDuplicateIds(posts_file[s].posts)

\* A supplement run has just written a document made of loaded posts and of
\* newly accepted posts.
C1_Witness ==
    /\ pc = "save_comments"
    /\ supplement_mode
    /\ existing_posts # <<>>
    /\ posts_data # <<>>
    /\ Len(posts_file[Current].posts) = Len(existing_posts) + Len(posts_data)

\* C2: whenever a supplement run writes the posts document of a source,
\* every post the document held before the write is in it afterwards: the
\* document save_data puts in place of the file it opens holds every post
\* the file held.
C2_NoLoss ==
    [][(supplement_mode /\ pc = "save_posts" /\ pc' = "dump_posts") =>
          \A i \in 1..Len(posts_file[Current].posts) :
              \E j \in 1..Len(all_posts) :
                  all_posts[j] = posts_file[Current].posts[i]]_vars

\* C3: after the posts document is written by a supplement merge, it is
\* the loaded posts in their order followed by the newly accepted posts in
\* the order they were accepted.
C3_OrderPreserving ==
    (pc = "save_comments" /\ supplement_mode) =>
        LET written == posts_file[Current].posts
            n == Len(existing_posts)
        IN  /\ Len(written) = n + Len(posts_data)
            /\ \A i \in 1..n : written[i] = existing_posts[i]
            /\ \A i \in 1..Len(posts_data) : written[n + i] = posts_data[i]

C3_Witness ==
    /\ pc = "save_comments"
    /\ supplement_mode
    /\ Len(existing_posts) >= 1
    /\ Len(posts_data) >= 1
    /\ posts_file[Current].posts[1] = existing_posts[1]

\* The persisted counts of a source, as check_if_supplement_needed computes
\* them from the documents.
persisted_counts(s) ==
    <<Len(posts_file[s].posts), total_comments(comments_file[s].comments)>>

MeetsThresholds(s) ==
    /\ persisted_counts(s)[1] >= min_posts_threshold
    /\ persisted_counts(s)[2] >= min_comments_threshold

BadBodies == {"", "[deleted]", "[removed]"}

\* C5: no persisted comments document holds a comment with an empty body,
\* a placeholder body or a null author.
C5_NoUnusableComment ==
    \A s \in Subs :
        \A k \in DOMAIN comments_file[s].comments :
            \A i \in 1..Len(comments_file[s].comments[k]) :
                LET c == comments_file[s].comments[k][i]
                IN  c.body \notin BadBodies /\ c.author # NoAuthor

\* C6: check_if_supplement_needed returns true in full mode; in supplement
\* mode it returns true exactly when the posts count it read is below
\* min_posts_threshold or the comments count it read is below
\* min_comments_threshold (a count equal to its threshold does not count as
\* below), the counts being those of the documents (0 for a missing or
\* unreadable one); and it changes nothing but its own result.
C6_ThresholdGate ==
    /\ [](pc = "checked" =>
            /\ (~supplement_mode => needed)
            /\ (supplement_mode =>
                  /\ needed <=> ( \/ ~(checked_counts[1] >= min_posts_threshold)
                                  \/ ~(checked_counts[2] >= min_comments_threshold) )
                  /\ checked_counts[1] \in {persisted_counts(Current)[1], 0}
                  /\ checked_counts[2] \in {persisted_counts(Current)[2], 0}
                  /\ (~posts_file[Current].exists => checked_counts[1] = 0)))
    /\ [][pc = "check" =>
            ( /\ disk' = disk
              /\ metadata_file' = metadata_file
              /\ results' = results
              /\ load_locals' = load_locals
              /\ posts_data' = posts_data
              /\ comments_data' = comments_data
              /\ api_calls' = api_calls
              /\ idx' = idx )]_vars

\* Supplement mode, both counts exactly at their thresholds: not needed.
C6_Witness ==
    /\ pc = "checked"
    /\ supplement_mode
    /\ checked_counts = <<min_posts_threshold, min_comments_threshold>>
    /\ persisted_counts(Current) = checked_counts
    /\ ~needed

\* C8: collect_subreddit_posts never holds, and so never returns, more than
\* posts_per_subreddit posts, over all its sort methods together.
C8_AtMostTarget ==
    /\ Len(posts_data) <= posts_per_subreddit
    /\ (pc = "posts_returned" => Len(posts_data) <= posts_per_subreddit)

\* The fetch returned with the target reached while sort methods were left.
C8_Witness ==
    /\ pc = "posts_returned"
    /\ Len(posts_data) = posts_per_subreddit
    /\ sort_i <= Len(sort_methods)
    /\ yielded > 0

\* C10: when a listing raises after posts were accepted,
\* collect_subreddit_posts goes on with the next sort method and keeps the
\* posts accepted so far: every way out of the loop over a listing leads to
\* the head of the loop over the sort methods with posts_data as it was.
C10_StrategyErrorRecovered ==
    [][(pc = "iterate" /\ posts_data # <<>> /\ pc' # "iterate") =>
          (pc' = "collect_posts" /\ posts_data' = posts_data)]_vars

(***************************************************************************)
(* The threshold check at the code's scale: a supplement or full run is at *)
(* the check of a source whose documents hold given numbers of posts and   *)
(* comments, with the thresholds of __init__.                              *)
(***************************************************************************)
GatePostCounts == {150, 199, 200, 201, 250}
GateCommentCounts == {0, 499, 500, 501}

SynthPosts(n) == [i \in 1..n |-> [id |-> i, upvotes |-> 5]]

SynthComment == [body |-> "text", author |-> "u", score |-> 2]

\* m comments, comments_per_post to a post.
SynthComments(m) ==
    LET nkeys == (m + CommentsPerPostCode - 1) \div CommentsPerPostCode
    IN  [k \in 1..nkeys |->
            [j \in 1..(IF k < nkeys THEN CommentsPerPostCode
                       ELSE m - CommentsPerPostCode * (nkeys - 1)) |-> SynthComment]]

CodeScaleConfig ==
    /\ subreddits = <<"news">>
    /\ posts_per_subreddit = PostsPerSubredditCode
    /\ comments_per_post = CommentsPerPostCode
    /\ min_posts_threshold = MinPostsThresholdCode
    /\ min_comments_threshold = MinCommentsThresholdCode

InitGate ==
    /\ \E n \in GatePostCounts :
          posts_file = [s \in Subs |-> IF s = "news"
                                       THEN PostsDocument(SynthPosts(n))
                                       ELSE NoFile]
    /\ \E m \in GateCommentCounts :
          comments_file = [s \in Subs |-> IF s = "news"
                                          THEN CommentsDocument(SynthComments(m))
                                          ELSE NoCommentsFile]
    /\ metadata_file = [m \in {"initial", "supplement"} |-> NoMetadata]
    /\ disk_at_start = disk
    /\ supplement_mode \in BOOLEAN
    /\ CodeScaleConfig
    /\ feed_size = MaxFeed
    /\ run = 1
    /\ pc = "check"
    /\ idx = 1
    /\ stage = [s \in Subs |-> IF s = "news" THEN <<"PENDING">> ELSE <<>>]
    /\ results = [s \in Subs |-> NoResult]
    /\ InitLocals
    /\ api_calls = {}
    /\ submission = <<>>
    /\ metadata_writes = 0
    /\ summary = NoSummary

NextGate ==
    \/ CheckSupplement
    \/ SkipSubreddit
    \/ LoadExisting

SpecGate == InitGate /\ [][NextGate]_vars

\* C7 as stated: with min_posts_threshold 200 in supplement mode, the check
\* returns true when the loaded posts document has 150 posts and false when
\* it has 250.
C7_AsStated ==
    (pc = "checked" /\ supplement_mode /\ min_posts_threshold = 200) =>
        /\ (checked_counts[1] = 150 => needed)
        /\ (checked_counts[1] = 250 => ~needed)

\* C7 amended: it returns true for 150 posts; for 250 posts it returns
\* false exactly when the loaded comments are at least
\* min_comments_threshold (500), and true when they are fewer.
C7_Amended ==
    (pc = "checked" /\ supplement_mode /\ min_posts_threshold = 200) =>
        /\ (checked_counts[1] = 150 => needed)
        /\ (checked_counts[1] = 250 =>
               (needed <=> ~(checked_counts[2] >= 500)))

C7_Witness ==
    /\ pc = "checked"
    /\ supplement_mode
    /\ min_posts_threshold = 200
    /\ Len(posts_file["news"].posts) = 250
    /\ checked_counts = <<250, 499>>
    /\ needed

(***************************************************************************)
(* collect_subreddit_posts at the code's scale against a simulated source: *)
(* full mode (one sort method), posts_per_subreddit = 200, a listing of    *)
(* feed_size distinct posts that are not stickied and score 5 or more.     *)
(***************************************************************************)
SimFeedSizes == {150, 250}

SimPost(i) == [id |-> i, score |-> 5 + (i % 3), stickied |-> FALSE, valid |-> TRUE]

InitFeed ==
    /\ posts_file = [s \in Subs |-> NoFile]
    /\ comments_file = [s \in Subs |-> NoCommentsFile]
    /\ metadata_file = [m \in {"initial", "supplement"} |-> NoMetadata]
    /\ disk_at_start = disk
    /\ supplement_mode = FALSE
    /\ CodeScaleConfig
    /\ feed_size \in SimFeedSizes
    /\ run = 1
    /\ pc = "collect_posts"
    /\ idx = 1
    /\ stage = [s \in Subs |-> IF s = "news" THEN <<"PENDING", "FETCHING_ITEMS">> ELSE <<>>]
    /\ results = [s \in Subs |-> NoResult]
    /\ InitLocals
    /\ api_calls = {}
    /\ submission = <<>>
    /\ metadata_writes = 0
    /\ summary = NoSummary

\* The simulated listing yields its next post.
NextSimPost == ExaminePost(SimPost(yielded + 1))

\* The simulated listing is exhausted after feed_size posts.
SimListingEnd ==
    /\ yielded = feed_size
    /\ ListingEnd

NextFeed ==
    \/ StrategyHead
    \/ NextSimPost
    \/ SimListingEnd

SpecFeed == InitFeed /\ [][NextFeed]_vars

\* C9: on a listing of 250 distinct, not stickied posts scoring 5 or more,
\* with a target of 200 and one sort method, collect_subreddit_posts returns
\* exactly the first 200 posts of the listing in the order they arrived,
\* and has not consumed the listing to its end.
C9_First200 ==
    (pc = "posts_returned" /\ feed_size = 250) =>
        /\ Len(posts_data) = 200
        /\ \A i \in 1..200 : posts_data[i] = [id |-> i, upvotes |-> SimPost(i).score]
        /\ yielded < feed_size

C9_Witness ==
    /\ pc = "posts_returned"
    /\ feed_size = 250
    /\ Len(posts_data) = 200
    /\ posts_data[200].id = 200

(***************************************************************************)
(* The for loop of collect_all_subreddits over two configured sources,     *)
(* with a target of one post and listings of one post.  Earlier runs have  *)
(* left, for each source, either nothing or the two documents of one post  *)
(* with one comment; the run counter leaves room for one more run.         *)
(***************************************************************************)
EarlierPost == [id |-> 1, upvotes |-> 5]
EarlierComment == [body |-> "text", author |-> "u", score |-> 2]

\* The sources earlier runs have persisted.
Persisted(have) ==
    /\ posts_file = [s \in Subs |-> IF s \in have THEN PostsDocument(<<EarlierPost>>)
                                     ELSE NoFile]
    /\ comments_file = [s \in Subs |-> IF s \in have
                                        THEN CommentsDocument(1 :> <<EarlierComment>>)
                                        ELSE NoCommentsFile]

InitSources ==
    /\ \E have \in SUBSET Subs : Persisted(have)
    /\ metadata_file = [m \in {"initial", "supplement"} |-> NoMetadata]
    /\ disk_at_start = disk
    /\ subreddits = <<"news", "art">>
    /\ supplement_mode = FALSE
    /\ posts_per_subreddit = 1
    /\ comments_per_post = SmallCap
    /\ min_posts_threshold = 1
    /\ min_comments_threshold = SmallCommentsThreshold
    /\ feed_size = 1
    /\ InitRun
    /\ run = MaxRuns - 1

SpecSources == InitSources /\ [][Next]_vars

LastStage(s) == stage[s][Len(stage[s])]

\* The stages a source has gone through beyond PENDING.
Attempted(s) == Len(stage[s]) > 1

Reached(s, name) == \E i \in 1..Len(stage[s]) : stage[s][i] = name

\* C11: when the processing of one source raises, the error is recorded as
\* that source's results entry, and the for loop is left only when every
\* configured source, the later ones included, has been processed to a
\* terminal stage.
C11_FailureIsolated ==
    /\ \A s \in Configured :
          (pc # "idle" /\ Attempted(s) /\ LastStage(s) = "FAILED") =>
              results[s].kind = "error"
    /\ pc = "save_metadata" =>
          \A s \in Configured : Attempted(s) /\ LastStage(s) \in Terminal

\* The first source failed in save_data and the second one was fetched and
\* persisted after it.
C11_Witness ==
    /\ pc = "save_metadata"
    /\ LastStage("news") = "FAILED"
    /\ results["news"].kind = "error"
    /\ Reached("art", "PERSISTING")
    /\ results["art"].kind = "counts"
    /\ posts_file["art"].valid

\* The positions inside save_data.
SavePositions == {"save_posts", "dump_posts", "save_comments", "dump_comments"}

\* C12: every source-level error is recorded as a terminal error entry of
\* the source, and the run continues: when collect_subreddit_posts has
\* failed and returned nothing, and when save_data raises, the step of the
\* orchestrator that follows sets the source's results entry to an error,
\* ends the source as FAILED and moves to the next source.
C12_ErrorsRecorded ==
    [][(\/ pc = "posts_failed"
        \/ (pc \in SavePositions /\ idx' = idx + 1 /\ results'[Current].kind # "counts"))
       => /\ results'[Current].kind = "error"
          /\ stage'[Current][Len(stage'[Current])] = "FAILED"
          /\ pc' \in {"check", "save_metadata"}]_vars

(***************************************************************************)
(* The scaled collector whose process can be stopped at any point of a     *)
(* run.                                                                    *)
(***************************************************************************)
NextInterruptible ==
    \/ Next
    \/ Interrupt

SpecInterrupt == Init /\ [][NextInterruptible]_vars

\* C13: the write of a source's two documents is atomic: when a supplement
\* run is interrupted at any point, the items and children the in-progress
\* source had persisted before (the ones the run loaded) are still readable
\* in the files the interruption leaves behind.
C13_InterruptSafe ==
    [][(pc \notin {"idle", "print_summary"} /\ pc' = "idle" /\ supplement_mode) =>
          /\ \A i \in 1..Len(existing_posts) :
                /\ posts_file'[Current].valid
                /\ \E j \in 1..Len(posts_file'[Current].posts) :
                      posts_file'[Current].posts[j] = existing_posts[i]
          /\ \A k \in DOMAIN existing_comments :
                /\ comments_file'[Current].valid
                /\ k \in DOMAIN comments_file'[Current].comments]_vars

\* The source whose iteration of the for loop ended last.
Processed == subreddits[idx - 1]

\* C14: when collect_post_comments raises for one accepted post, that post
\* gets no comments, the loop goes on over every other accepted post, and
\* save_data persists every accepted post (the failing one included) and
\* the comments fetched for the others.
C14_CommentsFailSoft ==
    /\ [](/\ pc \in {"collect_comments"} \cup SavePositions =>
               \A id \in comment_failed : id \notin DOMAIN comments_data
          /\ pc \in SavePositions => ci = Len(posts_data) + 1
          /\ pc \in {"save_comments", "dump_comments"} =>
               \A i \in 1..Len(posts_data) :
                   \E j \in 1..Len(posts_file[Current].posts) :
                       posts_file[Current].posts[j] = posts_data[i]
          /\ (pc = "save_metadata" /\ results[Processed].kind = "counts") =>
               \A id \in comment_failed : id \in IdsOf(posts_file[Processed].posts))
    /\ [][(pc = "dump_comments" /\ results'[Current].kind = "counts") =>
             /\ results'[Current].posts_collected = Len(posts_data)
             /\ \A k \in DOMAIN comments_data :
                   /\ k \in DOMAIN comments_file'[Current].comments
                   /\ comments_file'[Current].comments[k] = comments_data[k]]_vars

\* Two posts were accepted, the comment fetch raised for one of them, and
\* both posts and the comments of the other one are persisted.
C14_Witness ==
    /\ pc = "save_metadata"
    /\ results[Processed].kind = "counts"
    /\ results[Processed].posts_collected = 2
    /\ results[Processed].posts_with_comments = 1
    /\ Cardinality(comment_failed) = 1
    /\ comment_failed \subseteq IdsOf(posts_file[Processed].posts)
    /\ \E id \in IdsOf(posts_file[Processed].posts) \ comment_failed :
          /\ id \in DOMAIN comments_file[Processed].comments
          /\ comments_file[Processed].comments[id] # <<>>

(***************************************************************************)
(* collect_post_comments on one submission: the submission is fixed at the *)
(* start (any sequence of up to MaxSubmission top-level comments, with     *)
(* scores around both minimum scores), for the one post of posts_data.     *)
(***************************************************************************)
SubmissionComments ==
    { [body |-> "text", author |-> "u", score |-> n, valid |-> TRUE] : n \in 0..3 }
    \cup { [body |-> "[deleted]", author |-> "u", score |-> 3, valid |-> TRUE],
           [body |-> "more",      author |-> "u", score |-> 3, valid |-> FALSE] }

InitComments ==
    /\ posts_file = [s \in Subs |-> NoFile]
    /\ comments_file = [s \in Subs |-> NoCommentsFile]
    /\ metadata_file = [m \in {"initial", "supplement"} |-> NoMetadata]
    /\ disk_at_start = disk
    /\ subreddits = <<"news">>
    /\ supplement_mode \in BOOLEAN
    /\ posts_per_subreddit = 1
    /\ comments_per_post \in 1..MaxCap
    /\ min_posts_threshold = SmallPostsThreshold
    /\ min_comments_threshold = SmallCommentsThreshold
    /\ feed_size = 1
    /\ run = 1
    /\ pc = "collect_comments"
    /\ idx = 1
    /\ stage = [s \in Subs |-> IF s = "news"
                               THEN <<"PENDING", "FETCHING_ITEMS", "FETCHING_CHILDREN">>
                               ELSE <<>>]
    /\ results = [s \in Subs |-> NoResult]
    /\ existing_posts = <<>>
    /\ existing_comments = EmptyDict
    /\ existing_post_ids = {1}
    /\ posts_data = <<EarlierPost>>
    /\ comments_data = EmptyDict
    /\ checked_counts = <<0, 0>>
    /\ needed = FALSE
    /\ sort_i = 1
    /\ collected_count = 0
    /\ yielded = 0
    /\ ci = 1
    /\ comment_failed = {}
    /\ api_calls = {"news"}
    /\ submission \in SeqsUpTo(SubmissionComments, MaxSubmission)
    /\ metadata_writes = 0
    /\ summary = NoSummary

\* collect_post_comments on the submission, and what collect_subreddit_comments
\* does with its result.
FetchSubmission == StoreComments(collect_post_comments(submission), FALSE)

NextComments == FetchSubmission

SpecComments == InitComments /\ [][NextComments]_vars

\* What collect_post_comments returned for the post.
Returned == IF 1 \in DOMAIN comments_data THEN comments_data[1] ELSE <<>>

\* The persisted form of an exposed comment.
AsPersisted(c) == [body |-> c.body, author |-> c.author, score |-> c.score]

\* The exposed comments no filter rejects.
Acceptable(c) ==
    /\ c.valid
    /\ c.score >= min_comment_score
    /\ c.body \notin {"[deleted]", "[removed]"}
    /\ c.author # NoAuthor

\* C15: collect_post_comments returns at most comments_per_post comments,
\* each with a score of at least the minimum comment score, in the relative
\* order in which the submission exposed them; rejected comments do not
\* count toward the cap (the result has comments_per_post comments whenever
\* the submission exposes that many acceptable ones).
C15_CappedFilteredOrdered ==
    pc = "save_posts" =>
        LET r == Returned
            n == Cardinality({i \in 1..Len(submission) : Acceptable(submission[i])})
        IN  /\ Len(r) <= comments_per_post
            /\ \A i \in 1..Len(r) : r[i].score >= min_comment_score
            /\ \E f \in [1..Len(r) -> 1..Len(submission)] :
                  /\ \A i, j \in 1..Len(r) : i < j => f[i] < f[j]
                  /\ \A i \in 1..Len(r) : r[i] = AsPersisted(submission[f[i]])
            /\ Len(r) = IF n < comments_per_post THEN n ELSE comments_per_post

\* A submission of three comments whose first is rejected: the cap of two is
\* filled by the two after it.
C15_Witness ==
    /\ pc = "save_posts"
    /\ comments_per_post = 2
    /\ Len(submission) = 3
    /\ ~Acceptable(submission[1])
    /\ Len(Returned) = 2
    /\ Returned[1] # Returned[2]

IsPrefix(p, q) == Len(p) <= Len(q) /\ \A i \in 1..Len(p) : p[i] = q[i]

SkippedPath == <<"PENDING", "DONE">>
EmptyFetchPath == <<"PENDING", "FETCHING_ITEMS", "DONE">>
PersistedPath == <<"PENDING", "FETCHING_ITEMS", "FETCHING_CHILDREN", "PERSISTING", "DONE">>
FailedPath == <<"PENDING", "FETCHING_ITEMS", "FETCHING_CHILDREN", "PERSISTING", "FAILED">>

\* Comments are fetched only between the end of the item fetching and the
\* start of save_data.
ChildrenOnlyBetween ==
    [][(\/ ci' = ci + 1
        \/ (DOMAIN comments_data') \ (DOMAIN comments_data) # {}
        \/ comment_failed' \ comment_failed # {})
       => stage[Current] = <<"PENDING", "FETCHING_ITEMS", "FETCHING_CHILDREN">>]_vars

\* C16 as stated: each source goes through exactly one of the paths
\* PENDING -> DONE (skipped by the threshold check),
\* PENDING -> FETCHING_ITEMS -> FETCHING_CHILDREN -> PERSISTING -> DONE, or a
\* path ending in FAILED; a source that reaches DONE without being skipped
\* has gone through FETCHING_CHILDREN and PERSISTING; comments are never
\* fetched before the item fetching has finished nor after persisting.
C16_AsStated ==
    /\ [](\A s \in Configured :
            /\ \/ IsPrefix(stage[s], SkippedPath)
               \/ IsPrefix(stage[s], PersistedPath)
               \/ (stage[s] # <<>> /\ LastStage(s) = "FAILED")
            /\ (stage[s] # <<>> /\ LastStage(s) = "DONE" /\ stage[s] # SkippedPath) =>
                  (Reached(s, "FETCHING_CHILDREN") /\ Reached(s, "PERSISTING")))
    /\ ChildrenOnlyBetween

\* C16 amended: there is a fourth path, PENDING -> FETCHING_ITEMS -> DONE,
\* taken in full mode exactly when the item fetching returned nothing; the
\* skipped path is taken in supplement mode only, FAILED is entered from
\* PERSISTING only, and a source that reaches DONE through PERSISTING in
\* full mode has at least one new post.
C16_Amended ==
    /\ [](\A s \in Configured :
            /\ \/ IsPrefix(stage[s], SkippedPath)
               \/ IsPrefix(stage[s], EmptyFetchPath)
               \/ IsPrefix(stage[s], PersistedPath)
               \/ IsPrefix(stage[s], FailedPath)
            /\ stage[s] = SkippedPath => supplement_mode
            /\ stage[s] = EmptyFetchPath => (~supplement_mode /\ results[s].kind = "none")
            /\ (stage[s] = PersistedPath /\ ~supplement_mode /\ pc # "idle") =>
                  (results[s].kind = "counts" /\ results[s].posts_collected >= 1))
    /\ ChildrenOnlyBetween

\* A full run in which the first source yielded nothing and the second one
\* was fetched and persisted.
C16_Witness ==
    /\ pc = "save_metadata"
    /\ ~supplement_mode
    /\ stage["news"] = EmptyFetchPath
    /\ stage["art"] = PersistedPath

(***************************************************************************)
(* A run that has started keeps taking steps: every call it makes returns  *)
(* or raises, and every loop is over a finite listing.                     *)
(***************************************************************************)
RunStep == pc # "idle" /\ Next

SpecSourcesFair == InitSources /\ [][Next]_vars /\ WF_vars(RunStep)

\* C17: the metadata file is written exactly once per run, only after every
\* configured source has reached a terminal stage, and every run that has
\* started eventually writes it, whatever sources failed; the summary is
\* printed after it.
C17_MetadataOnce ==
    /\ [](/\ metadata_writes <= 1
          /\ metadata_writes = 1 =>
                /\ pc \in {"print_summary", "idle"}
                /\ \A s \in Configured : Attempted(s) /\ LastStage(s) \in Terminal
                /\ metadata_file[mode_text].exists
                /\ metadata_file[mode_text].results = results
          /\ summary.printed => (metadata_writes = 1 /\ pc = "idle"))
    /\ (pc # "idle") ~> (pc = "idle" /\ metadata_writes = 1 /\ summary.printed)

\* The run is over, both sources failed, and the metadata file holds their
\* two error entries.
C17_Witness ==
    /\ pc = "idle"
    /\ metadata_writes = 1
    /\ summary.printed
    /\ \A s \in Configured : LastStage(s) = "FAILED"
    /\ \A s \in Configured : metadata_file[mode_text].results[s].kind = "error"

\* C18: a summary is produced even when sources failed, and every failed
\* source is itemized in it: once the run is over the summary has been
\* printed, and no source whose processing failed is missing from its
\* per-source lines.
C18_FailuresItemized ==
    (pc = "idle" /\ metadata_writes = 1) =>
        /\ summary.printed
        /\ \A s \in Configured : LastStage(s) = "FAILED" => s \in summary.itemized

\* A source whose processing has started and has not ended.
InProgress(s) == Attempted(s) /\ LastStage(s) \notin Terminal

\* C19: sources are processed one at a time in the configured order: at
\* most one source is in progress, a source is started only when every
\* source before it has reached a terminal stage, no source goes through a
\* stage twice and all have been attempted when the loop is left, and a
\* step that changes a file changes a file of the source being processed,
\* during its save_data.
C19_Sequential ==
    /\ [](/\ Cardinality({s \in Configured : InProgress(s)}) <= 1
          /\ \A i, j \in 1..Len(subreddits) :
                (i < j /\ Attempted(subreddits[j])) =>
                    (Attempted(subreddits[i]) /\ LastStage(subreddits[i]) \in Terminal)
          /\ \A s \in Configured :
                \A i, j \in 1..Len(stage[s]) : i # j => stage[s][i] # stage[s][j]
          /\ pc \in {"save_metadata", "print_summary"} =>
                \A s \in Configured : Attempted(s) /\ LastStage(s) \in Terminal)
    /\ [][\A s \in Subs :
             (posts_file'[s] # posts_file[s] \/ comments_file'[s] # comments_file[s]) =>
                 /\ s = Current
                 /\ InProgress(s)
                 /\ LastStage(s) = "PERSISTING"]_vars

\* The second source is inside save_data (its posts file is open) after the
\* first one has been fetched and persisted.
C19_Witness ==
    /\ pc = "dump_posts"
    /\ Current = "art"
    /\ stage["news"] = PersistedPath
    /\ posts_file["news"].valid
    /\ InProgress("art")
    /\ ~posts_file["art"].valid

\* The posts the prompt of main announces as accepted in supplement mode.
AnnouncedMinUpvotes == 1

\* C20: in supplement mode a post with 1 or more upvotes is accepted:
\* whenever a supplement run is examining a listing and has not reached its
\* target, a post that is valid, not stickied, not yet known and has at
\* least 1 upvote (scores 1, 2 and 3 included) is appended to posts_data
\* when the listing yields it.
C20_SupplementAcceptsOnePlus ==
    (pc = "iterate" /\ supplement_mode /\ ~target_reached(collected_count)
        /\ yielded < feed_size /\ yielded < listing_limit) =>
        \A post \in RawPosts :
            (post.score >= AnnouncedMinUpvotes /\ ~post.stickied /\ post.valid
                /\ ~already_have(post, existing_post_ids)) =>
                ENABLED (ExaminePost(post) /\ Len(posts_data') = Len(posts_data) + 1)

\* C21: a post is accepted by collect_subreddit_posts only if, when it is
\* examined, its identifier is not in existing_post_ids, its score is at
\* least min_post_upvotes and it is not stickied; an accepted post is
\* appended at the end of posts_data (arrival order, no re-sorting), and its
\* identifier is added to existing_post_ids in the same step.
C21_AcceptanceFilter ==
    /\ [](pc = "iterate" =>
            \A post \in RawPosts :
                (already_have(post, existing_post_ids) \/ post.score < min_post_upvotes
                    \/ post.stickied) =>
                    ~ENABLED (ExaminePost(post) /\ posts_data' # posts_data))
    /\ [][(pc = "iterate" /\ posts_data' # posts_data /\ pc' # "posts_failed") =>
             LET new == posts_data'[Len(posts_data')]
             IN  /\ posts_data' = Append(posts_data, new)
                 /\ new.id \notin existing_post_ids
                 /\ new.upvotes >= min_post_upvotes
                 /\ existing_post_ids' = existing_post_ids \cup {new.id}]_vars

\* A supplement run has accepted one post from the first listing and a
\* second one, first in its listing, from the second listing.
C21_Witness ==
    /\ pc = "iterate"
    /\ supplement_mode
    /\ sort_i = 2
    /\ yielded = 1
    /\ Len(posts_data) = 2

\* C22: in a supplement run existing_post_ids starts as exactly the
\* identifiers of the source's persisted posts (empty in full mode), so no
\* post collect_subreddit_posts collects has an identifier of the persisted
\* posts document, and no identifier is collected twice within one run.
C22_IdentifierSet ==
    /\ [](pc \in {"collect_posts", "iterate", "posts_returned"} =>
            /\ NoDuplicateIds(posts_data)
            /\ supplement_mode =>
                  \A i \in 1..Len(posts_data) :
                      posts_data[i].id \notin IdsOf(posts_file[Current].posts))
    /\ [][(pc = "checked" /\ pc' = "collect_posts") =>
             existing_post_ids' = IF supplement_mode THEN IdsOf(posts_file[Current].posts)
                                  ELSE {}]_vars

(***************************************************************************)
(* collect_subreddit_posts, scaled, in both modes, against listings that   *)
(* hold more posts than the limit of a request.                            *)
(***************************************************************************)
LongListing == SmallTarget * LimitMultiplier + 1

InitStrategies ==
    /\ \E have \in BOOLEAN :
          /\ Persisted(IF have THEN {"news"} ELSE {})
          /\ supplement_mode \in BOOLEAN
          /\ existing_posts = IF supplement_mode THEN posts_file["news"].posts ELSE <<>>
          /\ existing_comments = IF supplement_mode THEN comments_file["news"].comments
                                 ELSE EmptyDict
          /\ existing_post_ids = IdsOf(existing_posts)
    /\ metadata_file = [m \in {"initial", "supplement"} |-> NoMetadata]
    /\ disk_at_start = disk
    /\ subreddits = <<"news">>
    /\ posts_per_subreddit \in 1..SmallTarget
    /\ comments_per_post = SmallCap
    /\ min_posts_threshold = SmallPostsThreshold
    /\ min_comments_threshold = SmallCommentsThreshold
    /\ feed_size = LongListing
    /\ run = 1
    /\ pc = "collect_posts"
    /\ idx = 1
    /\ stage = [s \in Subs |-> IF s = "news" THEN <<"PENDING", "FETCHING_ITEMS">> ELSE <<>>]
    /\ results = [s \in Subs |-> NoResult]
    /\ posts_data = <<>>
    /\ comments_data = EmptyDict
    /\ checked_counts = <<0, 0>>
    /\ needed = FALSE
    /\ sort_i = 1
    /\ collected_count = 0
    /\ yielded = 0
    /\ ci = 1
    /\ comment_failed = {}
    /\ api_calls = {}
    /\ submission = <<>>
    /\ metadata_writes = 0
    /\ summary = NoSummary

NextStrategies ==
    \/ StrategyHead
    \/ NextPost
    \/ ListingEnd
    \/ ListingError

SpecStrategies == InitStrategies /\ [][NextStrategies]_vars

\* C23: the sort methods are tried in their fixed order, one in full mode
\* and several in supplement mode; a listing yields at most
\* posts_per_subreddit x LimitMultiplier posts; a listing is requested only
\* while fewer than posts_per_subreddit posts are collected; and once
\* posts_per_subreddit posts are collected no post is accepted and no
\* listing is requested any more.
C23_StrategyOrder ==
    /\ [](/\ Len(sort_methods) = IF supplement_mode THEN 3 ELSE 1
          /\ sort_i \in 1..(Len(sort_methods) + 1)
          /\ pc = "iterate" =>
                /\ sort_i <= Len(sort_methods)
                /\ yielded <= posts_per_subreddit * LimitMultiplier
          /\ Len(posts_data) <= posts_per_subreddit)
    /\ [][/\ sort_i' \in {sort_i, sort_i + 1}
          /\ (pc = "collect_posts" /\ pc' = "iterate") =>
                Len(posts_data) < posts_per_subreddit
          /\ Len(posts_data) >= posts_per_subreddit =>
                /\ pc' # "iterate" \/ pc = "iterate"
                /\ posts_data' = posts_data \/ pc' = "posts_failed"]_vars

\* A supplement run with a target of one post whose second listing has
\* yielded as many posts as the request allows, none of them accepted.
C23_Witness ==
    /\ pc = "iterate"
    /\ supplement_mode
    /\ sort_i = 2
    /\ posts_data = <<>>
    /\ yielded = posts_per_subreddit * LimitMultiplier
    /\ yielded < feed_size

\* The number of comments of a comments map, counted comment by comment.
CountComments(d) ==
    Cardinality({<<k, i>> \in (DOMAIN d) \X (1..(MaxForest + MaxSubmission)) : i <= Len(d[k])})

\* C24: in every supplement merge the persisted comments map is the
\* previous map overridden by the new map (a key of the previous map only
\* keeps its comments, a key of the new map gets the new comments), and in
\* every persisted document the aggregate fields are recomputed from the
\* content: total_posts is the number of posts, total_posts_with_comments
\* the number of keys and total_comments the number of comments.
C24_MergeAndAggregates ==
    /\ [](\A s \in Subs :
            /\ posts_file[s].valid => posts_file[s].total_posts = Len(posts_file[s].posts)
            /\ comments_file[s].valid =>
                  /\ comments_file[s].total_posts_with_comments =
                        Cardinality(DOMAIN comments_file[s].comments)
                  /\ comments_file[s].total_comments = CountComments(comments_file[s].comments))
    /\ [][(supplement_mode /\ pc = "dump_comments" /\ comments_file'[Current].valid) =>
             LET persisted == comments_file'[Current].comments
             IN  /\ DOMAIN persisted = (DOMAIN existing_comments) \cup (DOMAIN comments_data)
                 /\ \A k \in DOMAIN persisted :
                       persisted[k] = IF k \in DOMAIN comments_data THEN comments_data[k]
                                      ELSE existing_comments[k]]_vars

\* A supplement run has persisted a comments map of two keys, one of them
\* new in this run and the other one kept from the previous map.
C24_Witness ==
    /\ pc = "save_metadata"
    /\ supplement_mode
    /\ results[Processed].kind = "counts"
    /\ results[Processed].posts_with_comments = 1
    /\ comments_file[Processed].valid
    /\ comments_file[Processed].total_posts_with_comments = 2
    /\ comments_file[Processed].total_comments = 2
    /\ posts_file[Processed].total_posts = 2

\* C25: in full mode the merge degenerates to a plain save: nothing is
\* loaded from the documents persisted before, and each of the two
\* documents written holds exactly what this run fetched for the source.
C25_FullModePlainSave ==
    /\ [](~supplement_mode /\ pc \in SavePositions =>
            /\ existing_posts = <<>>
            /\ existing_comments = EmptyDict)
    /\ [][(~supplement_mode /\ pc = "dump_posts" /\ posts_file'[Current].valid) =>
             posts_file'[Current].posts = posts_data]_vars
    /\ [][(~supplement_mode /\ pc = "dump_comments" /\ comments_file'[Current].valid) =>
             comments_file'[Current].comments = comments_data]_vars

\* A second run in full mode has persisted one post for a source whose
\* documents held the two posts of the first run.
C25_Witness ==
    /\ pc = "save_metadata"
    /\ run = 2
    /\ ~supplement_mode
    /\ metadata_file["initial"].exists
    /\ metadata_file["initial"].results[Processed].kind = "counts"
    /\ metadata_file["initial"].results[Processed].posts_collected = 2
    /\ results[Processed].kind = "counts"
    /\ results[Processed].posts_collected = 1
    /\ posts_file[Processed].valid
    /\ Len(posts_file[Processed].posts) = 1
    /\ comments_file[Processed].valid

\* C26: referential consistency of the two documents of a source: after any
\* sequence of runs (runs in which loading the posts document fails while
\* the comments document loads included), every key of the persisted
\* comments document is the id of a post of the persisted posts document.
C26_ReferentialConsistency ==
    pc = "idle" =>
        \A s \in Subs :
            (posts_file[s].valid /\ comments_file[s].valid) =>
                DOMAIN comments_file[s].comments \subseteq IdsOf(posts_file[s].posts)

\* The documents of source s when the run started.
posts_at_start(s) == disk_at_start[1][s]
comments_at_start(s) == disk_at_start[2][s]

\* C27: a supplement run fetches comments only for the posts it has newly
\* accepted: every key of the new comments map is the id of a newly
\* accepted post and never maps to an empty sequence, and the comments of
\* the previously persisted posts are the same in the comments document the
\* run persists as they were before the run, also for a source that was
\* selected only because its comment count was below the threshold.
C27_OnlyNewPostsGetComments ==
    /\ [](supplement_mode /\ pc \in {"collect_comments"} \cup SavePositions =>
            /\ DOMAIN comments_data \subseteq IdsOf(posts_data)
            /\ comment_failed \subseteq IdsOf(posts_data)
            /\ \A k \in DOMAIN comments_data : comments_data[k] # <<>>)
    /\ [][(supplement_mode /\ pc = "dump_comments" /\ comments_file'[Current].valid) =>
             \A k \in DOMAIN comments_at_start(Current).comments :
                 k \in IdsOf(posts_at_start(Current).posts) =>
                     /\ k \in DOMAIN comments_file'[Current].comments
                     /\ comments_file'[Current].comments[k] =
                            comments_at_start(Current).comments[k]]_vars

\* C28: the state of a source is unchanged on failure: for every source
\* whose entry of the results is an error entry, both of its documents are
\* the same as before the run started, also when save_data fails after the
\* posts document was written and before the comments document is.
C28_UnchangedOnFailure ==
    \A s \in Subs :
        results[s].kind = "error" =>
            /\ posts_file[s] = posts_at_start(s)
            /\ comments_file[s] = comments_at_start(s)

\* C29: the shape of the results at the end of a run: every key is a
\* configured source; an entry holds either counts or an error, never
\* both; a source has counts only if its documents were persisted in this
\* run, posts_collected being the number of posts this run added to its
\* posts document and posts_with_comments at most posts_collected; a source
\* that ends without persisting (skipped by the gate, or in full mode with
\* no post accepted) has no entry and its documents are untouched.
C29_ResultsShape ==
    /\ [](\A s \in Subs :
            /\ results[s].kind \in {"none", "counts", "error"}
            /\ results[s].kind # "none" => s \in Configured
            /\ results[s].kind = "error" => results[s] = ErrorResult
            /\ results[s].kind = "counts" =>
                  /\ stage[s] = PersistedPath
                  /\ posts_file[s].valid /\ comments_file[s].valid
                  /\ results[s].posts_with_comments <= results[s].posts_collected
                  /\ results[s].posts_collected <= Len(posts_file[s].posts)
            /\ stage[s] \in {SkippedPath, EmptyFetchPath} =>
                  /\ results[s].kind = "none"
                  /\ posts_file[s] = posts_at_start(s)
                  /\ comments_file[s] = comments_at_start(s))
    /\ [][(pc = "dump_comments" /\ results'[Current].kind = "counts") =>
             LET document == posts_file[Current].posts
                 n == results'[Current].posts_collected
             IN  /\ n = Len(posts_data)
                 /\ n <= Len(document)
                 /\ SubSeq(document, Len(document) - n + 1, Len(document)) = posts_data
                 /\ SubSeq(document, 1, Len(document) - n) = existing_posts
                 /\ ~supplement_mode => n = Len(document)]_vars

\* A supplement run has ended for a source that had one post: one post was
\* added to its posts document, with comments, and the entry counts it.
C29_Witness ==
    /\ pc = "save_metadata"
    /\ supplement_mode
    /\ Len(posts_at_start(Processed).posts) = 1
    /\ results[Processed].kind = "counts"
    /\ results[Processed].posts_collected = 1
    /\ results[Processed].posts_with_comments = 1
    /\ Len(posts_file[Processed].posts) = 2
    /\ results["art"].kind = "none"

====
